---- MODULE Spec2Model ----
(***************************************************************************)
(* Verification model of the ruststack test harness.                       *)
(*                                                                         *)
(*   SpecMain      .github/scripts/integration_test.py: main() running the *)
(*                 four script tests, their failure cleanup, the summary   *)
(*                 and the exit code.                                      *)
(*   SpecFixtures  examples/conftest.py: the per-test generator fixtures   *)
(*                 as pytest drives them (setup in dependency order, the   *)
(*                 test call, teardown in reverse order).                  *)
(*   SpecTwice     SpecFixtures plus a second execution of the teardown    *)
(*                 code of every fixture that was torn down.               *)
(*   Spec          either program: the script or the pytest run.           *)
(*                                                                         *)
(* Every remote call is opaque: it returns or it raises, chosen            *)
(* nondeterministically.  Every assertion on a response passes or fails,   *)
(* chosen nondeterministically.                                            *)
(***************************************************************************)
EXTENDS Integers, Sequences, FiniteSets, TLC

VARIABLES
    \* ---- integration_test.py ----
    mpc,        \* where main() is: "loop", "body", "cleanup", "returned",
                \* "raised", "exited"
    ti,         \* index in tests of the test the for loop is at
    tpc,        \* index of the next step of the running test (body or cleanup)
    exc,        \* the exception in flight (its message), or NoExc
    failed,     \* main()'s list failed: <<name, message>> pairs
    ran,        \* history: one record per test() call main() made, with how
                \* the call ended and the message of the exception it raised
    log,        \* history of the running test: every step it executed
    summary,    \* the lines main() printed after the closing rule
    exitCode,   \* the arguments of the sys.exit calls made (none, or one)
    \* ---- conftest.py under pytest ----
    ppc,        \* "idle", "setup", "call", "teardown", "done"
    order,      \* the fixtures of the running test, in setup order
    si,         \* index in order of the next fixture to set up
    stack,      \* fixtures whose generator reached its yield, in setup order
    tdi,        \* index in stack of the fixture being torn down (0: none left)
    tdpc,       \* where that fixture's teardown code is
    children,   \* what the teardown's listing returned and is still to drain
    fstate,     \* fixture -> lifecycle state
    plog,       \* history of the running test: every client call issued
    verdict,    \* pytest's report of the test: setup, call, teardown phases
    round,      \* how many times the teardown code has been started (1 or 2)
    \* ---- conftest.py: wait_for_ruststack ----
    wpc,        \* "off", "check", "request", "sleep", "returned", "raised"
    wT,         \* the argument timeout, in ticks of 0.1 s
    wnow,       \* time.time() - start, in ticks of 0.1 s
    wreqs,      \* health requests issued so far
    wsleeps,    \* time.sleep calls made so far
    wlast,      \* how the last health request ended ("none" before the first)
    wresult,    \* the value returned: "True", "False", or "none" before
    \* ---- conftest.py: ruststack_process ----
    rpc,        \* where the fixture is: "off", "start", "probing", "kill",
                \* "yielded", "terminate", "wait", "done"
    proc,       \* the subprocess: "none", "running", "exited"
    rdelay,     \* seconds the subprocess takes to exit after terminate()
    rexc,       \* the exception that left the fixture, "<none>" if none
    rcalls,     \* history: the methods of proc called, in order
    rprobe,     \* history: what wait_for_ruststack returned, "none" before
    ryielded,   \* history: the endpoint was yielded to the tests
    \* ---- conftest.py: ruststack_endpoint and the session clients ----
    spc,        \* where pytest is: "off", "idle", "endpoint", "probing",
                \* "clients", "skipped", "end"
    stest,      \* number of the test being set up or run
    endpoint,   \* pytest's cache of ruststack_endpoint: "none", "ready",
                \* "skipped"
    sprobe,     \* history: what every call of the probe returned
    built,      \* client fixture -> how many times its function has run
    sgot,       \* the clients handed to the current test: <<fixture, which
                \* construction>>
    sverdicts,  \* history: "ran" or "skipped", per test
    \* ---- test_integration.py: one test function ----
    bname,      \* the test function that runs
    bpc,        \* "off", "body", "finally", "end"
    bi,         \* number of the next statement of the body or of the finally
    bexc,       \* the exception in flight or that left the function
    blog,       \* history: every statement run, and whether it completed
    bverdict,   \* "none", "passed", "failed"
    \* ---- flask-lambda/app.py ----
    items,      \* the dictionary items: key -> item
    fnext,      \* how many uuids have been drawn, plus one
    freq,       \* the last request served
    fresp       \* the response to it

mainVars == <<mpc, ti, tpc, exc, failed, ran, log, summary, exitCode>>
fixVars == <<ppc, order, si, stack, tdi, tdpc, children, fstate, plog, verdict, round>>
waitVars == <<wpc, wT, wnow, wreqs, wsleeps, wlast, wresult>>
procVars == <<rpc, proc, rdelay, rexc, rcalls, rprobe, ryielded>>
sessVars == <<spc, stest, endpoint, sprobe, built, sgot, sverdicts>>
bodyVars == <<bname, bpc, bi, bexc, blog, bverdict>>
flaskVars == <<items, fnext, freq, fresp>>
vars == <<mpc, ti, tpc, exc, failed, ran, log, summary, exitCode,
          ppc, order, si, stack, tdi, tdpc, children, fstate, plog, verdict, round,
          wpc, wT, wnow, wreqs, wsleeps, wlast, wresult,
          rpc, proc, rdelay, rexc, rcalls, rprobe, ryielded,
          spc, stest, endpoint, sprobe, built, sgot, sverdicts,
          bname, bpc, bi, bexc, blog, bverdict,
          items, fnext, freq, fresp>>
\* What a step of one program leaves alone: the state of the others.
notMain == <<fixVars, waitVars, procVars, sessVars, bodyVars, flaskVars>>
notFixtures == <<mainVars, waitVars, procVars, sessVars, bodyVars, flaskVars>>
notWait == <<mainVars, fixVars, procVars, sessVars, bodyVars, flaskVars>>
notProcess == <<mainVars, fixVars, sessVars, bodyVars, flaskVars>>
notSession == <<mainVars, fixVars, procVars, bodyVars, flaskVars>>
notBodies == <<mainVars, fixVars, waitVars, procVars, sessVars, flaskVars>>
notFlask == <<mainVars, fixVars, waitVars, procVars, sessVars, bodyVars>>

NoExc == "<none>"

(***************************************************************************)
(* Generic helpers.                                                        *)
(***************************************************************************)
Range(s) == {s[i] : i \in 1..Len(s)}


(***************************************************************************)
(* integration_test.py                                                     *)
(***************************************************************************)

\* main(): the list tests.
tests ==
    << "test_health_check", "test_s3_operations",
       "test_dynamodb_operations", "test_lambda_api" >>

\* The statements of each test function that can raise, in program order.
\* A client call raises when the call fails, an assert when its condition
\* is false, a subscript or a parse when the response lacks the field.
test_health_check_steps ==
    << "requests_get", "assert_status_200", "response_json",
       "assert_status_running" >>

test_s3_operations_steps ==
    << "get_client",
       "create_bucket", "list_buckets", "assert_bucket_listed",
       "put_object", "get_object", "read_body", "assert_content",
       "list_objects_v2", "assert_one_object", "assert_object_key",
       "delete_object", "delete_bucket" >>

test_dynamodb_operations_steps ==
    << "get_client",
       "create_table", "describe_table", "assert_table_active",
       "put_item", "get_item", "assert_item_found", "assert_item_name",
       "query", "assert_one_item", "update_item", "get_item_again",
       "assert_age_updated", "delete_item", "delete_table" >>

test_lambda_api_steps == << "get_client", "list_functions" >>

Steps(t) ==
    CASE t = "test_health_check" -> test_health_check_steps
      [] t = "test_s3_operations" -> test_s3_operations_steps
      [] t = "test_dynamodb_operations" -> test_dynamodb_operations_steps
      [] t = "test_lambda_api" -> test_lambda_api_steps

\* Index of the first step inside the function's try block; a test without
\* a try block has none (one past its last step).
TryFrom(t) ==
    CASE t = "test_s3_operations" -> 2
      [] t = "test_dynamodb_operations" -> 2
      [] OTHER -> Len(Steps(t)) + 1

\* The client calls of the "except Exception as e" block, in program order,
\* each in a try/except of its own.
Cleanup(t) ==
    CASE t = "test_s3_operations" -> << "delete_object", "delete_bucket" >>
      [] t = "test_dynamodb_operations" -> << "delete_table" >>
      [] OTHER -> << >>

\* CleanupRaised with a fault: the cleanup call's error replaces e.
CleanupRaisedReplaces(e, cleanupError) == cleanupError

\* What a bare "except: pass" around a cleanup call leaves in flight when the
\* call raises: the exception e of the enclosing handler.
CleanupRaised(e, cleanupError) == e

\* str(e) as main() records it.  An assert without a message gives the empty
\* string; every other failure is told apart by the statement that raised.
NoMessage == {"assert_object_key", "assert_item_name"}
Message(step) == IF step \in NoMessage THEN "" ELSE step

\* The remote resource a successful step brings into existence / is a delete
\* request for.
Creates(step) ==
    CASE step = "create_bucket" -> {"bucket"}
      [] step = "put_object" -> {"object"}
      [] step = "create_table" -> {"table"}
      [] OTHER -> {}

Deletes(step) ==
    CASE step = "delete_bucket" -> {"bucket"}
      [] step = "delete_object" -> {"object"}
      [] step = "delete_table" -> {"table"}
      [] OTHER -> {}

CurTest == tests[ti]

LogEntry(step, phase, ok) == [step |-> step, phase |-> phase, ok |-> ok]

\* for test in tests: ... test()
MainCall ==
    /\ mpc = "loop"
    /\ ti <= Len(tests)
    /\ mpc' = "body"
    /\ tpc' = 1
    /\ log' = << >>
    /\ ran' = Append(ran, [name |-> CurTest, result |-> "running", error |-> NoExc])
    /\ UNCHANGED <<ti, exc, failed, summary, exitCode>>

\* OnRaise with a fault: no step is inside a try block.
OnRaiseNoCleanup(t, i) == "raised"

\* Where control goes when step number i of test t raises: into the
\* function's except block when the step is inside its try, else out of the
\* function.
OnRaise(t, i) == IF i >= TryFrom(t) THEN "cleanup" ELSE "raised"

\* One statement of the running test function: it completes, or it raises.
TestStep ==
    /\ mpc = "body"
    /\ LET step == Steps(CurTest)[tpc] IN
       \/ /\ log' = Append(log, LogEntry(step, "body", TRUE))
          /\ IF tpc < Len(Steps(CurTest))
             THEN /\ tpc' = tpc + 1
                  /\ UNCHANGED <<mpc, ran>>
             ELSE /\ mpc' = "returned"
                  /\ tpc' = 1
                  /\ ran' = [ran EXCEPT ![Len(ran)].result = "returned"]
          /\ UNCHANGED exc
       \/ /\ log' = Append(log, LogEntry(step, "body", FALSE))
          /\ exc' = Message(step)
          /\ mpc' = OnRaise(CurTest, tpc)
          /\ tpc' = 1
          /\ ran' = IF OnRaise(CurTest, tpc) = "raised"
                    THEN [ran EXCEPT ![Len(ran)].result = "raised",
                                     ![Len(ran)].error = Message(step)]
                    ELSE ran
    /\ UNCHANGED <<ti, failed, summary, exitCode>>

\* CleanupNext with a fault: the cleanup calls share one try block.
CleanupNextAborts(t, i, raised) ==
    IF raised THEN Len(Cleanup(t)) + 1 ELSE i + 1

\* The cleanup call that follows call number i of the except block of test
\* t: the next one, whether or not call i raised, each call being in a
\* try/except of its own.
CleanupNext(t, i, raised) == i + 1

\* One cleanup call of the except block: it completes, or it raises into its
\* own bare except.
CleanupStep ==
    /\ mpc = "cleanup"
    /\ tpc <= Len(Cleanup(CurTest))
    /\ LET step == Cleanup(CurTest)[tpc] IN
       \/ /\ log' = Append(log, LogEntry(step, "cleanup", TRUE))
          /\ tpc' = CleanupNext(CurTest, tpc, FALSE)
          /\ UNCHANGED exc
       \/ /\ log' = Append(log, LogEntry(step, "cleanup", FALSE))
          /\ tpc' = CleanupNext(CurTest, tpc, TRUE)
          /\ exc' = CleanupRaised(exc, Message(step))
    /\ UNCHANGED <<mpc, ti, failed, ran, summary, exitCode>>

\* raise e, the last statement of the except block.
Reraise ==
    /\ mpc = "cleanup"
    /\ tpc > Len(Cleanup(CurTest))
    /\ mpc' = "raised"
    /\ tpc' = 1
    /\ ran' = [ran EXCEPT ![Len(ran)].result = "raised", ![Len(ran)].error = exc]
    /\ UNCHANGED <<ti, exc, failed, log, summary, exitCode>>

\* The list failed after main()'s except clause ran for test name.
Record(f, name, e) == Append(f, <<name, e>>)

\* test() returned: print() and the next iteration.
MainPass ==
    /\ mpc = "returned"
    /\ mpc' = "loop"
    /\ ti' = ti + 1
    /\ UNCHANGED <<tpc, exc, failed, ran, log, summary, exitCode>>

\* MainCatch with a fault: the except clause ends the loop.
MainCatchBreaks ==
    /\ mpc = "raised"
    /\ failed' = Append(failed, <<CurTest, exc>>)
    /\ exc' = NoExc
    /\ mpc' = "loop"
    /\ ti' = Len(tests) + 1
    /\ UNCHANGED <<tpc, ran, log, summary, exitCode>>

\* except Exception as e: failed.append((test.__name__, str(e)))
MainCatch ==
    /\ mpc = "raised"
    /\ failed' = Record(failed, CurTest, exc)
    /\ exc' = NoExc
    /\ mpc' = "loop"
    /\ ti' = ti + 1
    /\ UNCHANGED <<tpc, ran, log, summary, exitCode>>

\* SummaryLines with a fault: the loop over failed is missing.
SummaryLinesNoList(f, n) ==
    IF f # << >>
    THEN << [label |-> "FAILED", count |-> Len(f), total |-> n] >>
    ELSE << [label |-> "PASSED", count |-> n, total |-> n] >>

\* The lines printed after the closing rule.
SummaryLines(f, n) ==
    IF f # << >>
    THEN << [label |-> "FAILED", count |-> Len(f), total |-> n] >>
         \o [i \in 1..Len(f) |-> [label |-> "-", name |-> f[i][1], error |-> f[i][2]]]
    ELSE << [label |-> "PASSED", count |-> n, total |-> n] >>

\* ExitStatus with a fault: sys.exit(0) on both branches.
ExitStatusZero(f) == 0

\* The argument of sys.exit.
ExitStatus(f) == IF f # << >> THEN 1 ELSE 0

\* After the loop: the summary and sys.exit.
MainExit ==
    /\ mpc = "loop"
    /\ ti > Len(tests)
    /\ summary' = SummaryLines(failed, Len(tests))
    /\ exitCode' = << ExitStatus(failed) >>
    /\ mpc' = "exited"
    /\ UNCHANGED <<ti, tpc, exc, failed, ran, log>>

main == MainCall \/ MainPass \/ MainCatch \/ MainExit

(***************************************************************************)
(* conftest.py: the function-scoped generator fixtures, driven by pytest.  *)
(***************************************************************************)

\* How many fixtures one test function names in its parameter list.
MaxRequested == 2
\* How many children (object keys, attached policies) a listing returns.
MaxChildren == 2

Fixtures ==
    {"s3_bucket", "dynamodb_table", "secret", "iam_role", "http_api",
     "delivery_stream"}

\* Scope with a fault: every fixture is declared scope="session".
ScopeSession(f) == "session"

\* The scope each fixture is declared with: @pytest.fixture for the fixtures
\* above, @pytest.fixture(scope="session") for ruststack_endpoint and the
\* clients.
Scope(f) == IF f \in Fixtures THEN "function" ELSE "session"

\* Deps with a fault: delivery_stream does not name s3_bucket.
DepsNone(f) == << >>

\* The function-scoped fixtures a fixture names in its own parameter list.
Deps(f) == IF f = "delivery_stream" THEN << "s3_bucket" >> ELSE << >>

\* The client call before the yield.
CreateOp(f) ==
    CASE f = "s3_bucket" -> "create_bucket"
      [] f = "dynamodb_table" -> "create_table"
      [] f = "secret" -> "create_secret"
      [] f = "iam_role" -> "create_role"
      [] f = "http_api" -> "create_api"
      [] f = "delivery_stream" -> "create_delivery_stream"

\* The calls after the yield: an optional listing, one call per listed child,
\* then the delete of the resource itself.
ListOp(f) ==
    CASE f = "s3_bucket" -> "list_objects_v2"
      [] f = "iam_role" -> "list_attached_role_policies"
      [] OTHER -> "<none>"

ChildOp(f) ==
    CASE f = "s3_bucket" -> "delete_object"
      [] f = "iam_role" -> "detach_role_policy"
      [] OTHER -> "<none>"

DeleteOp(f) ==
    CASE f = "s3_bucket" -> "delete_bucket"
      [] f = "dynamodb_table" -> "delete_table"
      [] f = "secret" -> "delete_secret"
      [] f = "iam_role" -> "delete_role"
      [] f = "http_api" -> "delete_api"
      [] f = "delivery_stream" -> "delete_delivery_stream"

\* The first statement of the code after the yield.
TeardownEntry(f) == IF ListOp(f) # "<none>" THEN "list" ELSE "delete"

\* How a client call can fail: the resource is not there (the test body
\* deleted it already), or any other client or connection error.  Both are
\* subclasses of Exception.
Errors == {"NotFound", "Error"}

\* Catches with a fault: the handler catches "not found" errors only.
CatchesNotFoundOnly(f, pc, err) == err = "NotFound"

\* except Exception: pass -- whether the handler around the teardown code of
\* fixture f catches an error of this kind raised by the statement at pc.
Catches(f, pc, err) == TRUE

\* YieldReached with a fault: the creation call is inside a try whose handler
\* falls through to the yield.
YieldReachedAlways(f, created) == TRUE

\* Whether the generator of f reached its yield, given whether its creation
\* call returned: the call is not inside any try, so its error leaves the
\* generator before the yield.
YieldReached(f, created) == created

\* pytest: the fixtures of a test in setup order.  Parameters are resolved
\* left to right, each fixture after the fixtures it depends on, once each.
RECURSIVE Resolve(_, _)
Resolve(req, done) ==
    IF req = << >> THEN done
    ELSE LET f == Head(req)
             withDeps == Resolve(Deps(f), done)
             withF == IF f \in Range(withDeps) THEN withDeps
                      ELSE Append(withDeps, f)
         IN Resolve(Tail(req), withF)

SetupOrder(req) == Resolve(req, << >>)

\* The parameter lists a test function may have: up to MaxRequested distinct
\* function-scoped fixtures, in any order.
Requests ==
    {r \in UNION {[1..n -> Fixtures] : n \in 1..MaxRequested} :
        \A a, b \in 1..Len(r) : a # b => r[a] # r[b]}

\* The finalizers pytest runs when a test is over: those of the fixtures of
\* function scope that reached their yield.
PerTest(s) == SelectSeq(s, LAMBDA f : Scope(f) = "function")

\* pytest runs the finalizers last registered first.
TeardownFirst(s) == Len(s)
TeardownNext(i) == i - 1

Call(f, op, arg, phase, res) ==
    [fixture |-> f, op |-> op, arg |-> arg, phase |-> phase, res |-> res]

NoVerdict == [setup |-> "none", call |-> "none", teardown |-> "none"]

\* pytest picks up a test function and resolves its fixtures.
PytestStart ==
    /\ ppc = "idle"
    /\ \E req \in Requests : order' = SetupOrder(req)
    /\ ppc' = "setup"
    /\ si' = 1
    /\ UNCHANGED <<stack, tdi, tdpc, children, fstate, plog, verdict, round>>

\* Entering the teardown phase: the finalizers of stack s are to run.
BeginTeardown(s) ==
    /\ tdi' = TeardownFirst(s)
    /\ tdpc' = IF TeardownFirst(s) \in 1..Len(s)
               THEN TeardownEntry(s[TeardownFirst(s)]) ELSE "end"
    /\ ppc' = IF TeardownFirst(s) \in 1..Len(s) THEN "teardown" ELSE "done"

\* The generator of the next fixture runs up to its yield: the creation call
\* returns, or it raises and the test is reported as a setup error.
FixtureSetup ==
    /\ ppc = "setup"
    /\ si <= Len(order)
    /\ LET f == order[si] IN
       \/ /\ plog' = Append(plog, Call(f, CreateOp(f), 0, "setup", "ok"))
          /\ stack' = IF YieldReached(f, TRUE) THEN Append(stack, f) ELSE stack
          /\ fstate' = [fstate EXCEPT ![f] = "Created"]
          /\ si' = si + 1
          /\ UNCHANGED <<ppc, tdi, tdpc, verdict>>
       \/ \E err \in Errors :
          /\ plog' = Append(plog, Call(f, CreateOp(f), 0, "setup", err))
          /\ stack' = IF YieldReached(f, FALSE) THEN Append(stack, f) ELSE stack
          /\ verdict' = [verdict EXCEPT !.setup = "error"]
          /\ BeginTeardown(PerTest(stack'))
          /\ UNCHANGED <<si, fstate>>
    /\ UNCHANGED <<order, children, round>>

\* Every fixture is set up: the values are handed to the test function.
SetupDone ==
    /\ ppc = "setup"
    /\ si > Len(order)
    /\ verdict' = [verdict EXCEPT !.setup = "passed"]
    /\ fstate' = [f \in Fixtures |->
                    IF f \in Range(stack) THEN "InUse" ELSE fstate[f]]
    /\ ppc' = "call"
    /\ UNCHANGED <<order, si, stack, tdi, tdpc, children, plog, round>>

\* The test function runs: it returns, or an assertion or a client call in
\* it raises.
TestCall ==
    /\ ppc = "call"
    /\ \E v \in {"passed", "failed"} : verdict' = [verdict EXCEPT !.call = v]
    /\ BeginTeardown(PerTest(stack))
    /\ UNCHANGED <<order, si, stack, children, fstate, plog, round>>

\* The code after the yield of fixture f is over, normally or by the
\* exception `raised` leaving the generator; pytest goes on with the next
\* finalizer and reports an exception as a teardown error.
Finish(f, raised) ==
    /\ fstate' = [fstate EXCEPT ![f] = "Done"]
    /\ verdict' = [verdict EXCEPT !.teardown =
                      IF raised THEN "error"
                      ELSE IF @ = "none" THEN "passed" ELSE @]
    /\ tdi' = TeardownNext(tdi)
    /\ tdpc' = IF TeardownNext(tdi) \in 1..Len(stack)
               THEN TeardownEntry(stack[TeardownNext(tdi)]) ELSE "end"
    /\ ppc' = IF TeardownNext(tdi) \in 1..Len(stack) THEN "teardown" ELSE "done"
    /\ children' = << >>

\* A statement of the teardown code raised err at pc.
Raise(f, pc, err) == Finish(f, ~Catches(f, pc, err))

\* Going on inside the teardown code of f.
Continue(f, pc, kids) ==
    /\ fstate' = [fstate EXCEPT ![f] = "TearingDown"]
    /\ tdpc' = pc
    /\ children' = kids
    /\ UNCHANGED <<ppc, tdi, verdict>>

\* AfterList with a fault: the for loop is skipped.
AfterListDelete(kids) == "delete"

\* Where the teardown code goes once its listing returned `kids`.
AfterList(kids) == IF kids = << >> THEN "delete" ELSE "drain"

\* response = client.list...(...); response.get(..., [])
TeardownList ==
    /\ ppc = "teardown"
    /\ tdpc = "list"
    /\ LET f == stack[tdi] IN
       \/ \E n \in 0..MaxChildren :
          /\ plog' = Append(plog, Call(f, ListOp(f), n, "teardown", "ok"))
          /\ Continue(f, AfterList([k \in 1..n |-> k]), [k \in 1..n |-> k])
       \/ \E err \in Errors :
          /\ plog' = Append(plog, Call(f, ListOp(f), 0, "teardown", err))
          /\ Raise(f, "list", err)
    /\ UNCHANGED <<order, si, stack, round>>

\* One iteration of the for loop: delete_object / detach_role_policy.
TeardownDrain ==
    /\ ppc = "teardown"
    /\ tdpc = "drain"
    /\ LET f == stack[tdi]
           k == Head(children) IN
       \/ /\ plog' = Append(plog, Call(f, ChildOp(f), k, "teardown", "ok"))
          /\ Continue(f, AfterList(Tail(children)), Tail(children))
       \/ \E err \in Errors :
          /\ plog' = Append(plog, Call(f, ChildOp(f), k, "teardown", err))
          /\ Raise(f, "drain", err)
    /\ UNCHANGED <<order, si, stack, round>>

\* The delete of the resource itself, the last statement of the try block.
TeardownDelete ==
    /\ ppc = "teardown"
    /\ tdpc = "delete"
    /\ LET f == stack[tdi] IN
       \/ /\ plog' = Append(plog, Call(f, DeleteOp(f), 0, "teardown", "ok"))
          /\ Finish(f, FALSE)
       \/ \E err \in Errors :
          /\ plog' = Append(plog, Call(f, DeleteOp(f), 0, "teardown", err))
          /\ Raise(f, "delete", err)
    /\ UNCHANGED <<order, si, stack, round>>

InitFixtures ==
    /\ ppc = "idle"
    /\ order = << >>
    /\ si = 1
    /\ stack = << >>
    /\ tdi = 0
    /\ tdpc = "end"
    /\ children = << >>
    /\ fstate = [f \in Fixtures |-> "Pending"]
    /\ plog = << >>
    /\ verdict = NoVerdict
    /\ round = 1

\* The test is reported; pytest goes to the next test function, whose
\* fixtures are new instances.
PytestNext ==
    /\ ppc = "done"
    /\ ppc' = "idle"
    /\ order' = << >>
    /\ si' = 1
    /\ stack' = << >>
    /\ tdi' = 0
    /\ tdpc' = "end"
    /\ children' = << >>
    /\ fstate' = [f \in Fixtures |->
                    IF Scope(f) = "function" THEN "Pending" ELSE fstate[f]]
    /\ plog' = << >>
    /\ verdict' = NoVerdict
    /\ round' = 1

\* The teardown code of the fixtures that were torn down is run once more,
\* in the same order; the call history starts afresh.
TeardownAgain ==
    /\ ppc = "done"
    /\ round = 1
    /\ stack # << >>
    /\ round' = 2
    /\ plog' = << >>
    /\ BeginTeardown(PerTest(stack))
    /\ UNCHANGED <<order, si, stack, children, fstate, verdict>>

(***************************************************************************)
(* conftest.py: wait_for_ruststack.  Time is counted in ticks of 0.1 s.    *)
(* A health request takes any time up to its timeout, a sleep takes its    *)
(* argument, every other statement takes no time.                          *)
(***************************************************************************)

\* The largest timeout argument tried, in ticks.
MaxTimeout == 12
\* time.sleep(0.1), in ticks.
Interval == 1
\* requests.get(..., timeout=1), in ticks.
AttemptTimeout == 10
\* timeout: float = 30.0, in ticks.
DefaultTimeout == 300

Timeouts == (0 - 1)..MaxTimeout

\* How a health request can end: an exception of requests, or a response
\* with a status code and a body.
Refusals == {"refused", "reset", "timeout"}
Responses == {"status_503", "status_200_running", "status_200_other"}
Outcomes == Refusals \cup Responses

\* AttemptDurations with a fault: the request is made without timeout=1.
AttemptDurationsUnbounded == 0..(2 * AttemptTimeout)

\* How long a health request can take.
AttemptDurations == 0..AttemptTimeout

\* KeepPolling with a fault: the loop is entered when the time is just up.
KeepPollingLate(elapsed, timeout) == elapsed <= timeout

\* KeepPolling with a fault: the loop gives up one interval early.
KeepPollingEarly(elapsed, timeout) == elapsed + Interval < timeout

\* while time.time() - start < timeout
KeepPolling(elapsed, timeout) == elapsed < timeout

\* CaughtByProbe with a fault: except requests.ConnectionError.
CaughtConnectionErrorOnly(outcome) == outcome \in {"refused", "reset"}

\* except requests.RequestException: ConnectionError and Timeout are both
\* subclasses of it.
CaughtByProbe(outcome) == outcome \in Refusals

\* IsReady with a fault: the comparison is never true.
IsReadyNever(outcome) == FALSE

\* if resp.status_code == 200
IsReady(outcome) == outcome \in {"status_200_running", "status_200_other"}

\* The call: start = time.time().
WaitCall(timeout) ==
    /\ wpc' = "check"
    /\ wT' = timeout
    /\ wnow' = 0
    /\ wreqs' = 0
    /\ wsleeps' = 0
    /\ wlast' = "none"
    /\ wresult' = "none"

\* The while condition: into the loop body, or return False.
WaitCheck ==
    /\ wpc = "check"
    /\ IF KeepPolling(wnow, wT)
       THEN /\ wpc' = "request"
            /\ UNCHANGED wresult
       ELSE /\ wpc' = "returned"
            /\ wresult' = "False"
    /\ UNCHANGED <<wT, wnow, wreqs, wsleeps, wlast>>

\* requests.get(f"{endpoint}/health", timeout=1) and what follows it in the
\* try block: return True on status 200, else on to the sleep; an exception
\* the except clause does not catch leaves the function.
WaitRequest ==
    /\ wpc = "request"
    /\ \E d \in AttemptDurations, o \in Outcomes :
          /\ wnow' = wnow + d
          /\ wlast' = o
          /\ wreqs' = wreqs + 1
          /\ IF o \in Refusals
             THEN /\ wpc' = IF CaughtByProbe(o) THEN "sleep" ELSE "raised"
                  /\ UNCHANGED wresult
             ELSE IF IsReady(o)
                  THEN /\ wpc' = "returned"
                       /\ wresult' = "True"
                  ELSE /\ wpc' = "sleep"
                       /\ UNCHANGED wresult
    /\ UNCHANGED <<wT, wsleeps>>

\* time.sleep(0.1)
WaitSleep ==
    /\ wpc = "sleep"
    /\ wnow' = wnow + Interval
    /\ wsleeps' = wsleeps + 1
    /\ wpc' = "check"
    /\ UNCHANGED <<wT, wreqs, wlast, wresult>>

wait_for_ruststack == WaitCheck \/ WaitRequest \/ WaitSleep

\* wait_for_ruststack has not been called.
WaitOff ==
    /\ wpc = "off"
    /\ wT = 0
    /\ wnow = 0
    /\ wreqs = 0
    /\ wsleeps = 0
    /\ wlast = "none"
    /\ wresult = "none"

\* wait_for_ruststack(endpoint, T) has just been called, for some T.
InitWait ==
    /\ wpc = "check"
    /\ wT \in Timeouts
    /\ wnow = 0
    /\ wreqs = 0
    /\ wsleeps = 0
    /\ wlast = "none"
    /\ wresult = "none"

\* return True, return False: the locals of the call are gone.
WaitReturn ==
    /\ wpc' = "off"
    /\ wT' = 0
    /\ wnow' = 0
    /\ wreqs' = 0
    /\ wsleeps' = 0
    /\ wlast' = "none"
    /\ wresult' = "none"

(***************************************************************************)
(* conftest.py: the session fixture ruststack_process, which starts the    *)
(* service as a subprocess, waits for it to be ready, yields to the tests  *)
(* of the session and stops the subprocess in its finally block.           *)
(***************************************************************************)

\* proc.wait(timeout=5), in seconds
GracePeriod == 5

\* How long the subprocess takes to exit once it has been sent SIGTERM; a
\* delay above the grace period stands for every longer delay and for a
\* subprocess that ignores the signal.
TermDelays == 0..(GracePeriod + 1)

\* if not os.path.exists(binary): pytest.skip(...); proc = subprocess.Popen(...)
\* and the call of wait_for_ruststack(RUSTSTACK_ENDPOINT).
ProcStart ==
    /\ rpc = "start"
    /\ \/ /\ rpc' = "done"
          /\ rexc' = "Skipped"
          /\ UNCHANGED <<proc, rdelay, waitVars>>
       \/ /\ rpc' = "done"
          /\ rexc' = "OSError"
          /\ UNCHANGED <<proc, rdelay, waitVars>>
       \/ /\ rpc' = "probing"
          /\ proc' = "running"
          /\ WaitCall(DefaultTimeout)
          /\ UNCHANGED <<rdelay, rexc>>
    /\ UNCHANGED <<rcalls, rprobe, ryielded>>

\* if not wait_for_ruststack(...): ... else yield RUSTSTACK_ENDPOINT
ProcProbed ==
    /\ rpc = "probing"
    /\ wpc = "returned"
    /\ rpc' = IF wresult = "True" THEN "yielded" ELSE "kill"
    /\ rprobe' = wresult
    /\ ryielded' = (wresult = "True")
    /\ WaitReturn
    /\ UNCHANGED <<proc, rdelay, rexc, rcalls>>

\* What the subprocess has written to a pipe: text in UTF-8, or bytes that
\* are not.
Outputs == {"utf8", "not_utf8"}

\* stdout.decode(), stderr.decode(): whether bytes.decode() returns.
Decodes(out) == out = "utf8"

\* The exception that leaves pytest.fail(f"... {stdout.decode()} ...
\* {stderr.decode()}"): Failed, carrying the two outputs, when the message
\* could be built, else the exception of the decode.
FailWith(stdout, stderr) ==
    IF Decodes(stdout) /\ Decodes(stderr) THEN "Failed"
    ELSE "UnicodeDecodeError"

\* proc.kill(); stdout, stderr = proc.communicate(); pytest.fail(...)
ProcKill ==
    /\ rpc = "kill"
    /\ proc' = "exited"
    /\ rcalls' = rcalls \o << "kill", "communicate" >>
    /\ \E stdout \in Outputs, stderr \in Outputs :
          rexc' = FailWith(stdout, stderr)
    /\ rpc' = "terminate"
    /\ UNCHANGED <<rdelay, rprobe, ryielded, waitVars>>

\* While the tests of the session run, the subprocess may exit by itself.
ProcExits ==
    /\ rpc = "yielded"
    /\ proc = "running"
    /\ proc' = "exited"
    /\ UNCHANGED <<rpc, rdelay, rexc, rcalls, rprobe, ryielded, waitVars>>

\* The session ends: pytest resumes the generator after its yield.
ProcResume ==
    /\ rpc = "yielded"
    /\ rpc' = "terminate"
    /\ UNCHANGED <<proc, rdelay, rexc, rcalls, rprobe, ryielded, waitVars>>

\* finally: proc.terminate() -- SIGTERM to a running subprocess, nothing to
\* one that has exited.
ProcTerminate ==
    /\ rpc = "terminate"
    /\ rpc' = "wait"
    /\ IF proc = "running"
       THEN \E d \in TermDelays : rdelay' = d
       ELSE UNCHANGED rdelay
    /\ rcalls' = Append(rcalls, "terminate")
    /\ UNCHANGED <<proc, rexc, rprobe, ryielded, waitVars>>

\* proc.wait(timeout=5): returns when the subprocess has exited, raises
\* TimeoutExpired when it has not within the grace period; nothing follows.
ProcWait ==
    /\ rpc = "wait"
    /\ rpc' = "done"
    /\ IF proc = "exited"
       THEN UNCHANGED <<proc, rexc>>
       ELSE IF rdelay <= GracePeriod
            THEN /\ proc' = "exited"
                 /\ UNCHANGED rexc
            ELSE /\ rexc' = "TimeoutExpired"
                 /\ UNCHANGED proc
    /\ rcalls' = Append(rcalls, "wait")
    /\ UNCHANGED <<rdelay, rprobe, ryielded, waitVars>>

ruststack_process ==
    \/ ProcStart
    \/ ProcProbed
    \/ ProcKill
    \/ ProcExits
    \/ ProcResume
    \/ ProcTerminate
    \/ ProcWait

\* ruststack_process is not requested.
ProcessOff ==
    /\ rpc = "off"
    /\ proc = "none"
    /\ rdelay = 0
    /\ rexc = NoExc
    /\ rcalls = << >>
    /\ rprobe = "none"
    /\ ryielded = FALSE

\* pytest is about to set the fixture up.
InitProcess ==
    /\ rpc = "start"
    /\ proc = "none"
    /\ rdelay = 0
    /\ rexc = NoExc
    /\ rcalls = << >>
    /\ rprobe = "none"
    /\ ryielded = FALSE

(***************************************************************************)
(* conftest.py: the session fixture ruststack_endpoint and the client      *)
(* fixtures that depend on it, under pytest: a fixture function of session *)
(* scope runs at the first request and its outcome -- the value, or the    *)
(* exception it raised -- is kept for every later request of the session.  *)
(***************************************************************************)

\* Tests of the session.
MaxTests == 3
\* Client fixtures one test requests, directly or through its fixtures.
MaxClients == 2

Clients ==
    {"s3_client", "dynamodb_client", "dynamodb_resource", "lambda_client",
     "logs_client", "secretsmanager_client", "iam_client",
     "apigatewayv2_client", "firehose_client"}

\* EndpointOutcome with a fault: the fixture yields whatever the probe said.
EndpointOutcomeAlwaysReady(ready) == "ready"

\* if not wait_for_ruststack(RUSTSTACK_ENDPOINT): pytest.skip(...)
\* yield RUSTSTACK_ENDPOINT
EndpointOutcome(ready) == IF ready THEN "ready" ELSE "skipped"

\* Whether pytest runs the fixture function at this request: always for a
\* function-scoped fixture, only when nothing is kept for a session one.
RunsFunction(f, kept) == Scope(f) # "session" \/ ~kept

\* pytest goes on to the next test of the session.
SessTest ==
    /\ spc = "idle"
    /\ stest <= MaxTests
    /\ spc' = "endpoint"
    /\ sgot' = {}
    /\ UNCHANGED <<stest, endpoint, sprobe, built, sverdicts, waitVars>>

\* The test's first client fixture names ruststack_endpoint: its function
\* is entered and calls the probe, or the kept outcome is used.
SessEndpoint ==
    /\ spc = "endpoint"
    /\ IF RunsFunction("ruststack_endpoint", endpoint # "none")
       THEN /\ spc' = "probing"
            /\ WaitCall(DefaultTimeout)
       ELSE /\ spc' = IF endpoint = "ready" THEN "clients" ELSE "skipped"
            /\ UNCHANGED waitVars
    /\ UNCHANGED <<stest, endpoint, sprobe, built, sgot, sverdicts>>

\* The probe has returned: skip, or yield the endpoint.
SessProbed ==
    /\ spc = "probing"
    /\ wpc = "returned"
    /\ sprobe' = Append(sprobe, wresult)
    /\ endpoint' = EndpointOutcome(wresult = "True")
    /\ spc' = IF EndpointOutcome(wresult = "True") = "ready"
              THEN "clients" ELSE "skipped"
    /\ WaitReturn
    /\ UNCHANGED <<stest, built, sgot, sverdicts>>

\* A client fixture the test requests: return boto3.client(...), or the
\* client kept from its first construction.
SessClient ==
    /\ spc = "clients"
    /\ Cardinality(sgot) < MaxClients
    /\ \E c \in Clients \ {g[1] : g \in sgot} :
          /\ built' = IF RunsFunction(c, built[c] > 0)
                      THEN [built EXCEPT ![c] = built[c] + 1] ELSE built
          /\ sgot' = sgot \cup {<<c, built'[c]>>}
    /\ UNCHANGED <<spc, stest, endpoint, sprobe, sverdicts, waitVars>>

\* The test function runs with the clients it was handed.
SessBody ==
    /\ spc = "clients"
    /\ sgot # {}
    /\ sverdicts' = Append(sverdicts, "ran")
    /\ stest' = stest + 1
    /\ spc' = "idle"
    /\ UNCHANGED <<endpoint, sprobe, built, sgot, waitVars>>

\* pytest.skip left ruststack_endpoint: the test is reported as skipped.
SessSkip ==
    /\ spc = "skipped"
    /\ sverdicts' = Append(sverdicts, "skipped")
    /\ stest' = stest + 1
    /\ spc' = "idle"
    /\ UNCHANGED <<endpoint, sprobe, built, sgot, waitVars>>

\* No test is left: the session ends.
SessEnd ==
    /\ spc = "idle"
    /\ stest > MaxTests
    /\ spc' = "end"
    /\ UNCHANGED <<stest, endpoint, sprobe, built, sgot, sverdicts, waitVars>>

\* No test requests a client.
SessionOff ==
    /\ spc = "off"
    /\ stest = 1
    /\ endpoint = "none"
    /\ sprobe = << >>
    /\ built = [c \in Clients |-> 0]
    /\ sgot = {}
    /\ sverdicts = << >>

\* The session starts.
InitSession ==
    /\ spc = "idle"
    /\ stest = 1
    /\ endpoint = "none"
    /\ sprobe = << >>
    /\ built = [c \in Clients |-> 0]
    /\ sgot = {}
    /\ sverdicts = << >>

(***************************************************************************)
(* test_integration.py: the test functions that create a remote resource   *)
(* in their own body.  Each statement that can raise is one step: a client *)
(* call, or an assert together with the subscripts that feed it.           *)
(***************************************************************************)

BodyTests ==
    {"test_bucket_lifecycle", "test_table_lifecycle", "test_secret_lifecycle",
     "test_role_lifecycle", "test_policy_attachment", "test_api_lifecycle",
     "test_delivery_stream_lifecycle", "test_put_record",
     "test_put_record_batch", "test_log_group_lifecycle", "test_log_events"}

\* The statements of the function outside any finally block, in order.
BodySteps(t) ==
    CASE t = "test_bucket_lifecycle" ->
           << "create_bucket", "list_buckets", "assert_bucket_listed",
              "delete_bucket", "list_buckets_again",
              "assert_bucket_not_listed" >>
      [] t = "test_table_lifecycle" ->
           << "create_table", "describe_table", "assert_table_name",
              "delete_table" >>
      [] t = "test_secret_lifecycle" ->
           << "create_secret", "get_secret_value", "assert_api_key",
              "put_secret_value", "get_secret_value_again",
              "assert_api_key_updated", "delete_secret" >>
      [] t = "test_role_lifecycle" ->
           << "create_role", "assert_role_name", "get_role",
              "assert_role_name_again", "delete_role" >>
      [] t = "test_policy_attachment" ->
           << "create_policy", "subscript_policy_arn", "attach_role_policy",
              "list_attached_role_policies", "assert_policy_attached",
              "detach_role_policy" >>
      [] t = "test_api_lifecycle" ->
           << "create_api", "subscript_api_id", "assert_api_name",
              "assert_protocol_type", "get_api", "assert_api_name_again" >>
      [] t = "test_delivery_stream_lifecycle" ->
           << "create_delivery_stream", "describe_delivery_stream",
              "assert_stream_name", "assert_stream_active",
              "list_delivery_streams", "assert_stream_listed" >>
      [] t = "test_put_record" ->
           << "create_delivery_stream", "put_record", "assert_record_id",
              "assert_not_encrypted" >>
      [] t = "test_put_record_batch" ->
           << "create_delivery_stream", "put_record_batch",
              "assert_no_failed_put", "assert_ten_responses" >>
      [] t = "test_log_group_lifecycle" ->
           << "create_log_group", "describe_log_groups",
              "assert_group_listed" >>
      [] t = "test_log_events" ->
           << "create_log_group", "create_log_stream", "put_log_events",
              "get_log_events", "assert_message_1", "assert_message_2" >>

\* Number of the first statement inside the try block; a function without
\* a try block has none (one past its last statement).
BodyTryFrom(t) ==
    CASE t \in {"test_policy_attachment", "test_api_lifecycle",
                "test_log_events"} -> 3
      [] t \in {"test_delivery_stream_lifecycle", "test_put_record",
                "test_put_record_batch", "test_log_group_lifecycle"} -> 2
      [] OTHER -> Len(BodySteps(t)) + 1

\* The statements of the finally block.
BodyFinally(t) ==
    CASE t = "test_policy_attachment" -> << "delete_policy" >>
      [] t = "test_api_lifecycle" -> << "delete_api" >>
      [] t \in {"test_delivery_stream_lifecycle", "test_put_record",
                "test_put_record_batch"} -> << "delete_delivery_stream" >>
      [] t \in {"test_log_group_lifecycle", "test_log_events"} ->
           << "delete_log_group" >>
      [] OTHER -> << >>

\* The remote resource a statement creates, and the one it deletes.
Created(step) ==
    CASE step = "create_bucket" -> "bucket"
      [] step = "create_table" -> "table"
      [] step = "create_secret" -> "secret"
      [] step = "create_role" -> "role"
      [] step = "create_policy" -> "policy"
      [] step = "create_api" -> "api"
      [] step = "create_delivery_stream" -> "delivery_stream"
      [] step = "create_log_group" -> "log_group"
      [] OTHER -> "<none>"

Released(step) ==
    CASE step = "delete_bucket" -> "bucket"
      [] step = "delete_table" -> "table"
      [] step = "delete_secret" -> "secret"
      [] step = "delete_role" -> "role"
      [] step = "delete_policy" -> "policy"
      [] step = "delete_api" -> "api"
      [] step = "delete_delivery_stream" -> "delivery_stream"
      [] step = "delete_log_group" -> "log_group"
      [] OTHER -> "<none>"

\* BodyOnRaise with a fault: no statement is inside a try block.
BodyOnRaiseNoFinally(t, i) == "end"

\* Where control goes when statement number i of test t raises: into the
\* finally block when the statement is inside the try, else out of the
\* function.
BodyOnRaise(t, i) == IF i >= BodyTryFrom(t) THEN "finally" ELSE "end"

\* Where control goes when the last statement before the end of the try
\* block has completed.
BodyOnReturn(t) == IF BodyFinally(t) # << >> THEN "finally" ELSE "end"

\* One statement of the function: it completes, or it raises.
BodyStep ==
    /\ bpc = "body"
    /\ LET step == BodySteps(bname)[bi] IN
       \/ /\ blog' = Append(blog, LogEntry(step, "body", TRUE))
          /\ IF bi < Len(BodySteps(bname))
             THEN /\ bi' = bi + 1
                  /\ UNCHANGED <<bpc, bverdict>>
             ELSE /\ bi' = 1
                  /\ bpc' = BodyOnReturn(bname)
                  /\ bverdict' = IF BodyOnReturn(bname) = "end"
                                 THEN "passed" ELSE bverdict
          /\ UNCHANGED bexc
       \/ /\ blog' = Append(blog, LogEntry(step, "body", FALSE))
          /\ bexc' = step
          /\ bi' = 1
          /\ bpc' = BodyOnRaise(bname, bi)
          /\ bverdict' = IF BodyOnRaise(bname, bi) = "end"
                         THEN "failed" ELSE bverdict
    /\ UNCHANGED bname

\* One statement of the finally block: it completes, and after the last one
\* the exception in flight, if any, goes on; or it raises, and its
\* exception is the one that leaves the function.
FinallyStep ==
    /\ bpc = "finally"
    /\ LET step == BodyFinally(bname)[bi] IN
       \/ /\ blog' = Append(blog, LogEntry(step, "finally", TRUE))
          /\ IF bi < Len(BodyFinally(bname))
             THEN /\ bi' = bi + 1
                  /\ UNCHANGED <<bpc, bverdict>>
             ELSE /\ bi' = 1
                  /\ bpc' = "end"
                  /\ bverdict' = IF bexc = NoExc THEN "passed" ELSE "failed"
          /\ UNCHANGED bexc
       \/ /\ blog' = Append(blog, LogEntry(step, "finally", FALSE))
          /\ bexc' = step
          /\ bi' = 1
          /\ bpc' = "end"
          /\ bverdict' = "failed"
    /\ UNCHANGED bname

\* No test function of test_integration.py runs.
BodiesOff ==
    /\ bname = "<none>"
    /\ bpc = "off"
    /\ bi = 1
    /\ bexc = NoExc
    /\ blog = << >>
    /\ bverdict = "none"

\* pytest calls one of the test functions, its fixtures set up.
InitBodies ==
    /\ bname \in BodyTests
    /\ bpc = "body"
    /\ bi = 1
    /\ bexc = NoExc
    /\ blog = << >>
    /\ bverdict = "none"

(***************************************************************************)
(* test_integration.py, class TestFirehose, under pytest: the s3_bucket    *)
(* fixture of conftest.py is set up, the test function runs with it, and   *)
(* the fixture is torn down when the function is over.                     *)
(***************************************************************************)

FirehoseTests ==
    {"test_delivery_stream_lifecycle", "test_put_record",
     "test_put_record_batch"}

\* The fixtures in the parameter list of a TestFirehose test (the client
\* is a session fixture).
FirehoseRequest == << "s3_bucket" >>

\* pytest calls the test function with the fixture values.
FirehoseCall ==
    /\ ppc = "call"
    /\ bpc = "off"
    /\ bname' \in FirehoseTests
    /\ bpc' = "body"
    /\ UNCHANGED <<bi, bexc, blog, bverdict>>

\* The test function is over: its outcome is the report of the call phase,
\* and the finalizers of its fixtures run.
FirehoseReturn ==
    /\ ppc = "call"
    /\ bpc = "end"
    /\ verdict' = [verdict EXCEPT !.call = bverdict]
    /\ BeginTeardown(PerTest(stack))
    /\ UNCHANGED <<order, si, stack, children, fstate, plog, round>>

\* pytest is about to set up the fixtures of a TestFirehose test.
InitFirehose ==
    /\ ppc = "setup"
    /\ order = SetupOrder(FirehoseRequest)
    /\ si = 1
    /\ stack = << >>
    /\ tdi = 0
    /\ tdpc = "end"
    /\ children = << >>
    /\ fstate = [f \in Fixtures |-> "Pending"]
    /\ plog = << >>
    /\ verdict = NoVerdict
    /\ round = 1

(***************************************************************************)
(* flask-lambda/app.py: the sample Flask application.  One action per      *)
(* route, the whole view function; requests are served one at a time.      *)
(* A JSON value is modelled by the way the view functions can tell it      *)
(* from another; "<missing>" stands for a key the object does not have and *)
(* "<null>" for the JSON null.                                             *)
(***************************************************************************)

\* Items created in one run.
MaxItems == 2

\* str(uuid.uuid4()): the n-th draw is n, never drawn before.
Ids == 1..MaxItems

NameValues == {"<null>", "", "a", "b"}
DescriptionValues == {"", "x"}

\* The request bodies: one that is not JSON, JSON values that are not
\* objects, and objects with or without the keys name and description.
NonObjects ==
    {"not_json", "null", "zero", "number", "empty_list", "list_without_name",
     "list_with_name", "empty_string", "string_without_name",
     "string_with_name"}
Bodies ==
    [kind : NonObjects, name : {"<missing>"}, description : {"<missing>"}]
       \cup [kind : {"object"},
             name : NameValues \cup {"<missing>"},
             description : DescriptionValues \cup {"<missing>"}]
NoBody == [kind |-> "null", name |-> "<missing>", description |-> "<missing>"]

\* request.get_json() raises: Flask answers the request itself.
NotJson(data) == data.kind = "not_json"

\* bool(data)
Truthy(data) ==
    CASE data.kind = "object" ->
           data.name # "<missing>" \/ data.description # "<missing>"
      [] data.kind \in {"number", "list_without_name", "list_with_name",
                        "string_without_name", "string_with_name"} -> TRUE
      [] OTHER -> FALSE

\* 'name' in data: "yes", "no", or "TypeError" when data is not iterable.
HasName(data) ==
    CASE data.kind = "object" ->
           IF data.name # "<missing>" THEN "yes" ELSE "no"
      [] data.kind \in {"list_with_name", "string_with_name"} -> "yes"
      [] data.kind \in {"number", "zero"} -> "TypeError"
      [] OTHER -> "no"

\* The status create_item answers with.
CreateStatus(data) ==
    IF ~Truthy(data) THEN 400
    ELSE IF HasName(data) = "TypeError" THEN 500
    ELSE IF HasName(data) = "no" THEN 400
    ELSE IF data.kind # "object" THEN 500
    ELSE 201

\* data.get('description', '')
Default(v) == IF v = "<missing>" THEN "" ELSE v

\* item = {'id': item_id, 'name': data['name'],
\*         'description': data.get('description', '')}
NewItem(id, data) ==
    [id |-> id, name |-> data.name, description |-> Default(data.description)]

\* CreateStores with a fault: the item is stored before the body is
\* validated.
CreateStoresAlways(status) == TRUE

\* Whether create_item reaches items[item_id] = item.
CreateStores(status) == status = 201

\* GivenValue with a fault: every value is written.
GivenAlways(v) == TRUE

\* if data.get(key): the value is there and is not empty.
GivenValue(v) == v \notin {"<missing>", "<null>", ""}

\* The item after update_item's two assignments.
Updated(item, data) ==
    [id |-> item.id,
     name |-> IF GivenValue(data.name) THEN data.name ELSE item.name,
     description |-> IF GivenValue(data.description)
                     THEN data.description ELSE item.description]

\* items[key] = item
With(store, key, item) ==
    [k \in DOMAIN store \cup {key} |-> IF k = key THEN item ELSE store[k]]

\* Without with a fault: nothing is deleted.
WithoutNothing(store, key) == store

\* del items[key]
Without(store, key) == [k \in DOMAIN store \ {key} |-> store[k]]

\* list(items.values()): the items in the order they were inserted, which
\* is the order of their keys.
RECURSIVE ValuesFrom(_, _)
ValuesFrom(store, k) ==
    IF k > MaxItems THEN << >>
    ELSE (IF k \in DOMAIN store THEN << store[k] >> ELSE << >>)
            \o ValuesFrom(store, k + 1)
Values(store) == ValuesFrom(store, 1)

Request(method, id, body) == [method |-> method, id |-> id, body |-> body]
Response(status, its) == [status |-> status, items |-> its]

\* GET /health
health ==
    /\ freq' = Request("HEALTH", 0, NoBody)
    /\ fresp' = Response(200, << >>)
    /\ UNCHANGED <<items, fnext>>

\* GET /items
list_items ==
    /\ freq' = Request("LIST", 0, NoBody)
    /\ fresp' = Response(200, Values(items))
    /\ UNCHANGED <<items, fnext>>

\* GET /items/<item_id>
get_item ==
    \E item_id \in Ids :
       /\ freq' = Request("GET", item_id, NoBody)
       /\ fresp' = IF item_id \notin DOMAIN items
                   THEN Response(404, << >>)
                   ELSE Response(200, << items[item_id] >>)
       /\ UNCHANGED <<items, fnext>>

\* POST /items
create_item ==
    \E data \in Bodies :
       /\ freq' = Request("POST", 0, data)
       /\ IF NotJson(data)
          THEN /\ \E st \in {400, 415} : fresp' = Response(st, << >>)
               /\ UNCHANGED <<items, fnext>>
          ELSE /\ CreateStatus(data) = 201 => fnext <= MaxItems
               /\ IF CreateStores(CreateStatus(data)) /\ fnext <= MaxItems
                  THEN /\ items' = With(items, fnext, NewItem(fnext, data))
                       /\ fnext' = fnext + 1
                  ELSE UNCHANGED <<items, fnext>>
               /\ fresp' = IF CreateStatus(data) = 201
                           THEN Response(201, << NewItem(fnext, data) >>)
                           ELSE Response(CreateStatus(data), << >>)

\* PUT /items/<item_id>
update_item ==
    \E item_id \in Ids, data \in Bodies :
       /\ freq' = Request("PUT", item_id, data)
       /\ IF item_id \notin DOMAIN items
          THEN /\ fresp' = Response(404, << >>)
               /\ UNCHANGED items
          ELSE IF NotJson(data)
          THEN /\ \E st \in {400, 415} : fresp' = Response(st, << >>)
               /\ UNCHANGED items
          ELSE IF data.kind # "object"
          THEN /\ fresp' = Response(500, << >>)
               /\ UNCHANGED items
          ELSE /\ items' = With(items, item_id, Updated(items[item_id], data))
               /\ fresp' = Response(200, << Updated(items[item_id], data) >>)
       /\ UNCHANGED fnext

\* DELETE /items/<item_id>
delete_item ==
    \E item_id \in Ids :
       /\ freq' = Request("DELETE", item_id, NoBody)
       /\ IF item_id \notin DOMAIN items
          THEN /\ fresp' = Response(404, << >>)
               /\ UNCHANGED items
          ELSE /\ items' = Without(items, item_id)
               /\ fresp' = Response(204, << >>)
       /\ UNCHANGED fnext

\* The application is not running.
FlaskOff ==
    /\ items = [k \in {} |-> k]
    /\ fnext = 1
    /\ freq = Request("none", 0, NoBody)
    /\ fresp = Response(0, << >>)

\* The module has been imported: items = {}.
InitFlask ==
    /\ items = [k \in {} |-> k]
    /\ fnext = 1
    /\ freq = Request("none", 0, NoBody)
    /\ fresp = Response(0, << >>)

\* The program is not the one running.
MainOff ==
    /\ mpc = "off"
    /\ ti = 1
    /\ tpc = 1
    /\ exc = NoExc
    /\ failed = << >>
    /\ ran = << >>
    /\ log = << >>
    /\ summary = << >>
    /\ exitCode = << >>

FixturesOff ==
    /\ ppc = "off"
    /\ order = << >>
    /\ si = 1
    /\ stack = << >>
    /\ tdi = 0
    /\ tdpc = "end"
    /\ children = << >>
    /\ fstate = [f \in Fixtures |-> "Pending"]
    /\ plog = << >>
    /\ verdict = NoVerdict
    /\ round = 1

InitMain ==
    /\ mpc = "loop"
    /\ ti = 1
    /\ tpc = 1
    /\ exc = NoExc
    /\ failed = << >>
    /\ ran = << >>
    /\ log = << >>
    /\ summary = << >>
    /\ exitCode = << >>

NextMain ==
    \/ main /\ UNCHANGED notMain
    \/ TestStep /\ UNCHANGED notMain
    \/ CleanupStep /\ UNCHANGED notMain
    \/ Reraise /\ UNCHANGED notMain


NextFixtures ==
    \/ PytestStart /\ UNCHANGED notFixtures
    \/ FixtureSetup /\ UNCHANGED notFixtures
    \/ SetupDone /\ UNCHANGED notFixtures
    \/ TestCall /\ UNCHANGED notFixtures
    \/ TeardownList /\ UNCHANGED notFixtures
    \/ TeardownDrain /\ UNCHANGED notFixtures
    \/ TeardownDelete /\ UNCHANGED notFixtures
    \/ PytestNext /\ UNCHANGED notFixtures

NextWait ==
    \/ WaitCheck /\ UNCHANGED notWait
    \/ WaitRequest /\ UNCHANGED notWait
    \/ WaitSleep /\ UNCHANGED notWait

NextProcess ==
    \/ ProcStart /\ UNCHANGED notProcess
    \/ ProcProbed /\ UNCHANGED notProcess
    \/ ProcKill /\ UNCHANGED notProcess
    \/ ProcExits /\ UNCHANGED notProcess
    \/ ProcResume /\ UNCHANGED notProcess
    \/ ProcTerminate /\ UNCHANGED notProcess
    \/ ProcWait /\ UNCHANGED notProcess
    \/ NextWait

NextSession ==
    \/ SessTest /\ UNCHANGED notSession
    \/ SessEndpoint /\ UNCHANGED notSession
    \/ SessProbed /\ UNCHANGED notSession
    \/ SessClient /\ UNCHANGED notSession
    \/ SessBody /\ UNCHANGED notSession
    \/ SessSkip /\ UNCHANGED notSession
    \/ SessEnd /\ UNCHANGED notSession
    \/ NextWait

NextBodies ==
    \/ BodyStep /\ UNCHANGED notBodies
    \/ FinallyStep /\ UNCHANGED notBodies

NextFirehose ==
    \/ FixtureSetup /\ UNCHANGED notFixtures
    \/ SetupDone /\ UNCHANGED notFixtures
    \/ FirehoseCall /\ UNCHANGED notBodies
    \/ BodyStep /\ UNCHANGED notBodies
    \/ FinallyStep /\ UNCHANGED notBodies
    \/ FirehoseReturn /\ UNCHANGED notFixtures
    \/ TeardownList /\ UNCHANGED notFixtures
    \/ TeardownDrain /\ UNCHANGED notFixtures
    \/ TeardownDelete /\ UNCHANGED notFixtures

NextFlask ==
    \/ health /\ UNCHANGED notFlask
    \/ list_items /\ UNCHANGED notFlask
    \/ get_item /\ UNCHANGED notFlask
    \/ create_item /\ UNCHANGED notFlask
    \/ update_item /\ UNCHANGED notFlask
    \/ delete_item /\ UNCHANGED notFlask

NextTwice ==
    \/ NextFixtures
    \/ TeardownAgain /\ UNCHANGED notFixtures

\* python integration_test.py
ScriptInit ==
    /\ InitMain
    /\ FixturesOff
    /\ WaitOff
    /\ ProcessOff
    /\ SessionOff
    /\ BodiesOff
    /\ FlaskOff
SpecMain == ScriptInit /\ [][NextMain]_vars

\* pytest over conftest.py
PytestInit ==
    /\ MainOff
    /\ InitFixtures
    /\ WaitOff
    /\ ProcessOff
    /\ SessionOff
    /\ BodiesOff
    /\ FlaskOff
SpecFixtures == PytestInit /\ [][NextFixtures]_vars

\* pytest over conftest.py, the teardown code run twice
SpecTwice == PytestInit /\ [][NextTwice]_vars

\* wait_for_ruststack(endpoint, T) alone, for every T tried
ProbeInit ==
    /\ MainOff
    /\ FixturesOff
    /\ InitWait
    /\ ProcessOff
    /\ SessionOff
    /\ BodiesOff
    /\ FlaskOff
SpecWait == ProbeInit /\ [][NextWait]_vars

\* The same, the clock advancing and every request and sleep coming to an
\* end: a step of the function that can be taken is taken.
SpecWaitFair == ProbeInit /\ [][NextWait]_vars /\ WF_vars(NextWait)

\* pytest with a test that requests ruststack_process
ProcessInit ==
    /\ MainOff
    /\ FixturesOff
    /\ WaitOff
    /\ InitProcess
    /\ SessionOff
    /\ BodiesOff
    /\ FlaskOff
SpecProcess == ProcessInit /\ [][NextProcess]_vars

\* pytest with tests that request the session clients
SessionInit ==
    /\ MainOff
    /\ FixturesOff
    /\ WaitOff
    /\ ProcessOff
    /\ InitSession
    /\ BodiesOff
    /\ FlaskOff
SpecSession == SessionInit /\ [][NextSession]_vars

\* pytest calls one test function of test_integration.py
BodiesInit ==
    /\ MainOff
    /\ FixturesOff
    /\ WaitOff
    /\ ProcessOff
    /\ SessionOff
    /\ InitBodies
    /\ FlaskOff
SpecBodies == BodiesInit /\ [][NextBodies]_vars

\* pytest runs one test of class TestFirehose
FirehoseInit ==
    /\ MainOff
    /\ InitFirehose
    /\ WaitOff
    /\ ProcessOff
    /\ SessionOff
    /\ BodiesOff
    /\ FlaskOff
SpecFirehose == FirehoseInit /\ [][NextFirehose]_vars

\* The sample Flask application serves requests
FlaskInit ==
    /\ MainOff
    /\ FixturesOff
    /\ WaitOff
    /\ ProcessOff
    /\ SessionOff
    /\ BodiesOff
    /\ InitFlask
SpecFlask == FlaskInit /\ [][NextFlask]_vars

\* Either program
Init == ScriptInit \/ PytestInit
Next == NextMain \/ NextFixtures
Spec == Init /\ [][Next]_vars

(***************************************************************************)
(* Properties.                                                             *)
(***************************************************************************)

\* What the call histories say.
TeardownCalls(f) ==
    {i \in 1..Len(plog) : plog[i].fixture = f /\ plog[i].phase = "teardown"}
Called(op) == {i \in 1..Len(plog) : plog[i].op = op}
CreationFailed(f) == \E i \in Called(CreateOp(f)) : plog[i].res # "ok"
CreationReturned(f) == \E i \in Called(CreateOp(f)) : plog[i].res = "ok"

BodyFailures == {i \in 1..Len(log) : log[i].phase = "body" /\ ~log[i].ok}
CleanupFailures == {i \in 1..Len(log) : log[i].phase = "cleanup" /\ ~log[i].ok}
CreatedByTest ==
    UNION {Creates(log[i].step) :
             i \in {k \in 1..Len(log) : log[k].phase = "body" /\ log[k].ok}}
DeleteAttempted == UNION {Deletes(log[i].step) : i \in 1..Len(log)}

Raised == {k \in 1..Len(ran) : ran[k].result = "raised"}
Returned == {k \in 1..Len(ran) : ran[k].result = "returned"}
EntriesFor(name) == {i \in 1..Len(failed) : failed[i][1] = name}

\* C1: the teardown code of every function-scoped fixture never lets an
\* exception out, whichever of its client calls fail and with whichever
\* error, in its first run and in a second run right after it; the second
\* run leaves the verdict pytest recorded for the test as it was.
C1_TeardownNeverRaises ==
    [][/\ verdict'.teardown # "error"
       /\ round' = 2 => verdict' = verdict]_vars

\* C1 witness: the second run of the teardown code of two fixtures is over,
\* and in it a call failed with "not found" and another with another error.
C1_Witness ==
    /\ round = 2
    /\ ppc = "done"
    /\ Len(stack) = 2
    /\ \E i, j \in 1..Len(plog) : plog[i].res = "NotFound" /\ plog[j].res = "Error"

\* C2: delivery_stream depends on s3_bucket: create_delivery_stream is only
\* called after create_bucket returned, and when both were created
\* delete_delivery_stream is called before any call of the bucket's teardown
\* (list_objects_v2, delete_object, delete_bucket), whatever the outcome of
\* the test; at the end of the test the stream's delete has been attempted.
C2_StreamBeforeBucket ==
    /\ \A j \in Called("create_delivery_stream") :
          \E i \in 1..(j - 1) : plog[i].op = "create_bucket" /\ plog[i].res = "ok"
    /\ CreationReturned("delivery_stream") =>
          \A j \in TeardownCalls("s3_bucket") :
             \E i \in 1..(j - 1) : plog[i].op = "delete_delivery_stream"
    /\ (ppc = "done" /\ CreationReturned("delivery_stream")) =>
          Called("delete_delivery_stream") # {}

\* C2 witness: the test body failed, both fixtures existed, and the run ended
\* with the bucket deleted.
C2_Witness ==
    /\ ppc = "done"
    /\ verdict.call = "failed"
    /\ CreationReturned("delivery_stream")
    /\ \E i \in Called("delete_bucket") : plog[i].res = "ok"

\* C3 (as claimed): once the teardown of s3_bucket or iam_role is over, the
\* delete of the resource itself has been attempted and so has the delete of
\* every child its listing returned, whichever earlier call raised.
C3_AllSubStepsAttempted ==
    \A f \in {"s3_bucket", "iam_role"} :
       fstate[f] = "Done" =>
          /\ \E i \in TeardownCalls(f) : plog[i].op = DeleteOp(f)
          /\ \A i \in TeardownCalls(f) :
                (plog[i].op = ListOp(f) /\ plog[i].res = "ok") =>
                   \A k \in 1..plog[i].arg :
                      \E j \in TeardownCalls(f) :
                         plog[j].op = ChildOp(f) /\ plog[j].arg = k

\* C4: when a test function of main() is left by an exception, a delete has
\* been attempted for every resource the test had created; and failed holds
\* exactly one entry for every test that raised and was handled, none for
\* any other.
C4_OneEntryAndCleanup ==
    /\ mpc = "raised" => CreatedByTest \subseteq DeleteAttempted
    /\ \A k \in 1..Len(ran) :
          Cardinality(EntriesFor(ran[k].name)) =
             IF k \in Raised /\ k < ti THEN 1 ELSE 0
    /\ \A i \in 1..Len(failed) :
          \E k \in Raised : failed[i] = <<ran[k].name, ran[k].error>>

\* C4 witness: test_s3_operations is left by an exception after it created
\* the bucket and the object, and a cleanup call failed too.
C4_Witness ==
    /\ mpc = "raised"
    /\ CurTest = "test_s3_operations"
    /\ CreatedByTest = {"bucket", "object"}
    /\ CleanupFailures # {}

\* C5: a failing cleanup call never replaces the failure: the exception that
\* leaves a test function of integration_test.py, and the message main()
\* records for it, are those of the statement of the body that raised,
\* whichever cleanup calls raised after it; and under pytest a test whose
\* call passed has no teardown error reported, whichever teardown calls of
\* its conftest.py fixtures raised.
C5_CleanupNeverChangesVerdict ==
    /\ mpc = "raised" =>
          \A i \in BodyFailures : exc = Message(log[i].step)
    /\ (mpc \in {"loop", "exited"} /\ ti > 1 /\ (ti - 1) \in Raised) =>
          \A i \in BodyFailures :
             failed[Len(failed)] = <<tests[ti - 1], Message(log[i].step)>>
    /\ verdict.call = "passed" =>
          (verdict.setup = "passed" /\ verdict.teardown # "error")

\* C5 witness: test_s3_operations failed at an assertion of its body, both
\* cleanup calls raised, and main() has recorded the failure.
C5_Witness ==
    /\ mpc = "loop"
    /\ ti = 3
    /\ \E i \in BodyFailures : log[i].step = "assert_content"
    /\ Cardinality(CleanupFailures) = 2

\* C6: a fixture whose creation call raised never has a call of its teardown
\* code issued, and at the end of the test every fixture whose creation call
\* returned has had its teardown code run from its first call on.
C6_NoTeardownForFailedCreation ==
    /\ \A f \in Fixtures : CreationFailed(f) => TeardownCalls(f) = {}
    /\ ppc = "done" =>
          \A f \in Fixtures :
             CreationReturned(f) =>
                /\ fstate[f] = "Done"
                /\ \E i \in TeardownCalls(f) :
                      plog[i].op = IF ListOp(f) # "<none>" THEN ListOp(f)
                                   ELSE DeleteOp(f)

\* C6 witness: create_delivery_stream raised and the bucket's teardown has
\* run through to delete_bucket.
C6_Witness ==
    /\ ppc = "done"
    /\ CreationFailed("delivery_stream")
    /\ Called("delete_bucket") # {}

\* C7 (as claimed): when create_bucket or create_table raises, the exception
\* that leaves the test carries the creation error's message and no delete
\* call has been attempted.
C7_NoDeleteAfterFailedCreation ==
    (mpc = "raised" /\
     \E i \in BodyFailures : log[i].step \in {"create_bucket", "create_table"})
       => /\ \A i \in BodyFailures : exc = Message(log[i].step)
          /\ DeleteAttempted = {}

\* C8: main() calls the tests in the order of its list, one at a time, each
\* once; it can always take a step until it has exited, whatever the tests
\* raised; whenever it is between two tests every call made has ended, and
\* when it exits every test of the list has been called and has ended.
C8_EveryTestRunsInOrder ==
    /\ Len(ran) <= Len(tests)
    /\ \A k \in 1..Len(ran) : ran[k].name = tests[k]
    /\ \A k \in 1..(Len(ran) - 1) : ran[k].result # "running"
    /\ mpc = "loop" => (Len(ran) = ti - 1 /\ Raised \cup Returned = 1..Len(ran))
    /\ mpc = "exited" => Raised \cup Returned = 1..Len(tests)
    /\ mpc # "exited" => ENABLED NextMain

\* C8 witness: main() has exited, the first test raised and the last one
\* returned.
C8_Witness ==
    /\ mpc = "exited"
    /\ 1 \in Raised
    /\ Len(tests) \in Returned

\* C9: sys.exit is called once, after every test has run and ended, with 0
\* exactly when no test raised and with 1 exactly when some test raised.
C9_ExitCode ==
    /\ mpc # "exited" => exitCode = << >>
    /\ mpc = "exited" =>
          /\ Len(exitCode) = 1
          /\ Raised \cup Returned = 1..Len(tests)
          /\ exitCode[1] = 0 <=> Raised = {}
          /\ exitCode[1] = 1 <=> Raised # {}

\* C9 witness: main() has exited with 1 and the only test that raised is
\* the third.
C9_Witness ==
    /\ mpc = "exited"
    /\ exitCode = <<1>>
    /\ Raised = {3}

\* The counts a summary line with this label reports.
Reported(label) ==
    {summary[i].count : i \in {k \in 1..Len(summary) : summary[k].label = label}}

\* The failed tests in execution order, with the message each raised.
RECURSIVE FailuresOf(_)
FailuresOf(r) ==
    IF r = << >> THEN << >>
    ELSE (IF Head(r).result = "raised"
          THEN << <<Head(r).name, Head(r).error>> >> ELSE << >>)
         \o FailuresOf(Tail(r))

\* C10 (as claimed): the summary reports the number of passed tests and the
\* number of failed tests.
C10_ReportsPassedAndFailed ==
    mpc = "exited" =>
       /\ Reported("PASSED") = {Cardinality(Returned)}
       /\ Reported("FAILED") = {Cardinality(Raised)}

\* C10 (amended): when some test failed the summary reports the number of
\* failed tests out of the number of tests run, the passed tests being the
\* difference, and then lists every failed test once, in execution order,
\* with its name and the message it raised; when none failed it reports
\* the number of tests run as passed.  Four tests of which only the second
\* fails give FAILED 1 of 4, that test's name and message, exit code 1.
C10_SummaryListsFailures ==
    mpc = "exited" =>
       LET truth == FailuresOf(ran)
           nf == Len(truth)
       IN /\ nf = Cardinality(Raised)
          /\ IF nf > 0
             THEN /\ Len(summary) = nf + 1
                  /\ summary[1] = [label |-> "FAILED", count |-> nf,
                                   total |-> Len(ran)]
                  /\ summary[1].total - summary[1].count = Cardinality(Returned)
                  /\ \A i \in 1..nf :
                        summary[i + 1] = [label |-> "-", name |-> truth[i][1],
                                          error |-> truth[i][2]]
             ELSE summary = << [label |-> "PASSED", count |-> Len(ran),
                                total |-> Len(ran)] >>
          /\ Raised = {2} =>
                /\ summary[1] = [label |-> "FAILED", count |-> 1, total |-> 4]
                /\ summary[2].name = tests[2]
                /\ exitCode = <<1>>

\* C10 witness: main() has exited after four tests of which only the second
\* failed.
C10_Witness ==
    /\ mpc = "exited"
    /\ Raised = {2}
    /\ Returned = {1, 3, 4}

\* C12: wait_for_ruststack never lets an exception out, whichever way each
\* health request ends; it can always go on until it has returned; what it
\* returns is True or False; and when the last request failed to connect it
\* returns False, not before the timeout has elapsed.
C12_ProbeNeverRaises ==
    /\ wpc # "raised"
    /\ wpc \in {"check", "request", "sleep"} => ENABLED NextWait
    /\ wpc = "returned" <=> wresult \in {"True", "False"}
    /\ (wpc = "returned" /\ wlast \in {"refused", "reset", "timeout"}) =>
          (wresult = "False" /\ wnow >= wT)

\* C12 witness: the probe has returned False after several requests, the
\* last of which timed out.
C12_Witness ==
    /\ wpc = "returned"
    /\ wresult = "False"
    /\ wlast = "timeout"
    /\ wreqs >= 2

\* C13 (as claimed): the probe returns True only after a response with
\* status 200 whose body carries the operational status; a 200 with another
\* body is not-yet-ready.
C13_TrueOnlyIfOperational ==
    /\ wresult = "True" => wlast = "status_200_running"
    /\ wlast = "status_200_other" => wresult # "True"

\* C14: the probe does not return False before the timeout has elapsed.
C14_FalseNotBeforeTimeout ==
    wresult = "False" => wnow >= wT

\* C14 witness: the probe returns False exactly when the largest timeout
\* tried has elapsed, no request having been answered.
C14_Witness ==
    /\ wresult = "False"
    /\ wT = MaxTimeout
    /\ wnow = wT
    /\ wlast \in {"refused", "reset", "timeout"}

\* C15 (as claimed): with a timeout above the polling interval, the probe
\* returns False no later than one polling interval after the timeout.
C15_FalseWithinInterval ==
    (wresult = "False" /\ wT > Interval) => wnow <= wT + Interval

\* C15 (amended): with a timeout above the polling interval, the probe
\* returns False no later than the per-attempt timeout plus one polling
\* interval after the timeout.
C15_FalseWithinAttemptAndInterval ==
    (wresult = "False" /\ wT > Interval) =>
       wnow <= wT + AttemptTimeout + Interval

\* C15 witness: the probe returns False a whole per-attempt timeout after
\* its timeout, the last request having started just before it.
C15_Witness ==
    /\ wresult = "False"
    /\ wT > Interval
    /\ wnow = wT + AttemptTimeout
    /\ wlast = "timeout"

\* C16: a response with status 200 ends the probe at once with True: no
\* request and no sleep follows it, every earlier request was followed by
\* one sleep, and a 200 on the first request means one request, no sleep.
C16_TrueAtFirstReadyResponse ==
    /\ wlast \in {"status_200_running", "status_200_other"} =>
          (wpc = "returned" /\ wresult = "True")
    /\ wresult = "True" =>
          (wlast \in {"status_200_running", "status_200_other"}
           /\ wsleeps = wreqs - 1)
    /\ (wreqs = 1 /\ wlast \in {"status_200_running", "status_200_other"}) =>
          wsleeps = 0

\* C16 witness: the first request is answered 200 at once and the probe has
\* returned True at time 0.
C16_Witness ==
    /\ wresult = "True"
    /\ wreqs = 1
    /\ wsleeps = 0
    /\ wnow = 0

\* C11 (as claimed): when the health endpoint does not answer the first
\* request of the run, main() attempts no further test and exits non-zero.
C11_NotReadyShortCircuits ==
    (Len(ran) >= 1 /\ ran[1].result = "raised"
                   /\ ran[1].error = "requests_get") =>
       /\ Len(ran) = 1
       /\ exitCode # << >> => exitCode[1] # 0

\* C17 (as claimed): once the fixture ruststack_process is over, its
\* teardown has not raised and the subprocess it started is not running,
\* also when the subprocess does not exit within the grace period.
C17_TeardownStopsProcess ==
    rpc = "done" => (proc # "running" /\ rexc # "TimeoutExpired")

\* C19: every session client is constructed at most once, only after the
\* probe has returned True, and every test is handed that one construction;
\* when the probe has returned False no client is constructed and the probe
\* is not called again.
C19_ClientsOnceAndOnlyWhenReady ==
    /\ \A c \in Clients : built[c] <= 1
    /\ (\E c \in Clients : built[c] > 0) => sprobe = << "True" >>
    /\ (\E i \in 1..Len(sprobe) : sprobe[i] = "False") =>
          (Len(sprobe) = 1 /\ \A c \in Clients : built[c] = 0)
    /\ \A g \in sgot : g[2] = 1 /\ built[g[1]] = 1

\* C19 witness: two tests have run, the third has been handed a client, and
\* one client in all has been constructed.
C19_Witness ==
    /\ sverdicts = << "ran", "ran" >>
    /\ sgot # {}
    /\ Cardinality({c \in Clients : built[c] > 0}) = 1

BodyCreated ==
    {Created(blog[i].step) : i \in {k \in 1..Len(blog) : blog[k].ok}}
       \ {"<none>"}
BodyReleaseAttempted ==
    {Released(blog[i].step) : i \in 1..Len(blog)} \ {"<none>"}

\* C20 (as claimed): when a test function of test_integration.py is over,
\* the delete call of every resource its body created has been attempted.
C20_ReleasedOnAllPaths ==
    bpc = "end" => BodyCreated \subseteq BodyReleaseAttempted

\* The statements of the body, the finally block left out, that raised.
BodyRaised == {i \in 1..Len(blog) : blog[i].phase = "body" /\ ~blog[i].ok}

\* C21 (as claimed): when a test function with a finally block is over, it
\* is recorded as passed if no statement of its body raised, and with the
\* error of the body statement that raised otherwise, whether or not the
\* cleanup call of the finally block raised.
C21_CleanupNeverOverwrites ==
    (bpc = "end" /\ BodyFinally(bname) # << >>) =>
       /\ BodyRaised = {} => bverdict = "passed"
       /\ \A i \in BodyRaised : bexc = blog[i].step

\* The delivery stream the test created is still there as far as the test
\* knows: no delete_delivery_stream call has returned.
StreamLive ==
    /\ "delivery_stream" \in BodyCreated
    /\ \A i \in 1..Len(blog) :
          Released(blog[i].step) = "delivery_stream" => ~blog[i].ok

\* C22 (as claimed): the teardown of s3_bucket deletes nothing of the bucket
\* while a delivery stream created by the test still targets it.
C22_BucketNeverDeletedUnderStream ==
    (Called("delete_bucket") # {} \/ Called("delete_object") # {}) =>
       ~StreamLive

\* C22 (amended): once create_delivery_stream has returned,
\* delete_delivery_stream has been attempted when the test function is over,
\* hence before the teardown of s3_bucket starts and before any call of it.
C22_StreamDeleteAttemptedFirst ==
    (bpc = "end" \/ ppc \in {"teardown", "done"}
                 \/ TeardownCalls("s3_bucket") # {}) =>
       ("delivery_stream" \in BodyCreated =>
           "delivery_stream" \in BodyReleaseAttempted)

\* C22 witness: an assertion of the body failed, the stream was deleted in
\* the finally block, and the bucket has been deleted after it.
C22_Witness ==
    /\ \E i \in BodyRaised : blog[i].step = "assert_stream_active"
    /\ ~StreamLive
    /\ "delivery_stream" \in BodyCreated
    /\ \E i \in Called("delete_bucket") : plog[i].res = "ok"

\* C23: in the teardown of s3_bucket and of iam_role, every call that
\* deletes the resource itself comes after a listing that returned and after
\* one call of the child delete for every child that listing returned.
C23_ChildrenDrainedFirst ==
    \A f \in {"s3_bucket", "iam_role"} :
       \A j \in TeardownCalls(f) :
          plog[j].op = DeleteOp(f) =>
             \E i \in TeardownCalls(f) :
                /\ i < j
                /\ plog[i].op = ListOp(f)
                /\ plog[i].res = "ok"
                /\ \A k \in 1..plog[i].arg :
                      \E c \in TeardownCalls(f) :
                         /\ i < c
                         /\ c < j
                         /\ plog[c].op = ChildOp(f)
                         /\ plog[c].arg = k

\* C23 witness: the listing of the bucket returned two keys or more and
\* delete_bucket has been called.
C23_Witness ==
    /\ \E i \in Called("list_objects_v2") : plog[i].res = "ok" /\ plog[i].arg >= 2
    /\ Called("delete_bucket") # {}

\* The cleanup calls the except block of the running test has issued.
CleanupCalls == {i \in 1..Len(log) : log[i].phase = "cleanup"}

\* C24: when test_s3_operations is left by an exception raised inside its
\* try block, delete_object and then delete_bucket have been attempted,
\* whether or not delete_object raised, and the exception that leaves the
\* function is the one the body raised.
C24_BothCleanupsThenReraise ==
    (mpc = "raised" /\ CurTest = "test_s3_operations"
       /\ \E i \in BodyFailures : log[i].step # "get_client") =>
       /\ \E i, j \in CleanupCalls :
             /\ i < j
             /\ log[i].step = "delete_object"
             /\ log[j].step = "delete_bucket"
       /\ \A i \in BodyFailures :
             /\ exc = Message(log[i].step)
             /\ ran[Len(ran)].error = Message(log[i].step)
       /\ ran[Len(ran)].result = "raised"

\* C24 witness: put_object raised, delete_object raised in the cleanup,
\* delete_bucket was attempted after it, and the exception has left the
\* function.
C24_Witness ==
    /\ mpc = "raised"
    /\ CurTest = "test_s3_operations"
    /\ \E i \in BodyFailures : log[i].step = "put_object"
    /\ \E i, j \in CleanupCalls :
          /\ i < j
          /\ log[i].step = "delete_object"
          /\ ~log[i].ok
          /\ log[j].step = "delete_bucket"

\* C25: wait_for_ruststack comes to an end, returning True or False; no
\* health request is started once the elapsed time has reached the timeout;
\* and with a timeout of 0 or less no request is ever issued and True is
\* never returned.
C25_ProbeTerminates ==
    /\ [](wpc = "request" => wnow < wT)
    /\ [](wT <= 0 => (wreqs = 0 /\ wresult # "True"))
    /\ <>(wpc = "returned" /\ wresult \in {"True", "False"})

\* C25 witness: called with a negative timeout, the probe has returned False
\* without a request.
C25_Witness ==
    /\ wT < 0
    /\ wpc = "returned"
    /\ wresult = "False"
    /\ wreqs = 0

\* C26 (as claimed): when the probe returned False, the fixture is over
\* with the subprocess killed, its outputs collected, the failure that
\* carries them raised and the endpoint never yielded; when the binary does
\* not exist, no subprocess was started and no method of it was called.
C26_StartupFailureReported ==
    /\ (rpc = "done" /\ rprobe = "False") =>
          /\ proc = "exited"
          /\ rcalls = << "kill", "communicate", "terminate", "wait" >>
          /\ rexc = "Failed"
          /\ ~ryielded
    /\ rexc = "Skipped" => (proc = "none" /\ rcalls = << >> /\ ~ryielded)

\* C27: a request the application answers with an error status, and every
\* GET request, leaves the items store as it was.
C27_ErrorsAndReadsLeaveStore ==
    [][(fresp'.status >= 400 \/ freq'.method \in {"HEALTH", "LIST", "GET"})
          => items' = items]_vars

\* C27 witness: a PUT of an id that is not in the store was answered 404
\* while the store holds an item.
C27_Witness ==
    /\ freq.method = "PUT"
    /\ fresp.status = 404
    /\ DOMAIN items # {}

\* C28: every entry of the store is kept under the key that is its id and
\* has a name and a description; a successful update keeps the item's id,
\* and keeps its name (its description) when the request gives none or an
\* empty one.
C28_EntriesWellFormed ==
    /\ [](\A k \in DOMAIN items :
             /\ items[k].id = k
             /\ items[k].name # "<missing>"
             /\ items[k].description # "<missing>")
    /\ [][(freq'.method = "PUT" /\ fresp'.status = 200) =>
             /\ items'[freq'.id].id = items[freq'.id].id
             /\ freq'.body.name \in {"<missing>", ""} =>
                   items'[freq'.id].name = items[freq'.id].name
             /\ freq'.body.description \in {"<missing>", ""} =>
                   items'[freq'.id].description = items[freq'.id].description
          ]_vars

\* C28 witness: an update that gave an empty name and a new description has
\* been served, and the item still has its name.
C28_Witness ==
    /\ freq.method = "PUT"
    /\ fresp.status = 200
    /\ freq.body.name = ""
    /\ freq.body.description = "x"
    /\ items[freq.id].name = "a"
    /\ items[freq.id].description = "x"

\* C29: the item a POST answered with 201 is what a GET of its id that
\* follows returns, and is in the list a GET /items that follows returns; a
\* DELETE answered with 204 removes that one key and changes no other item;
\* and a GET, PUT or DELETE of an id that was deleted is answered with 404.
C29_CreateReadDelete ==
    [][/\ (freq.method = "POST" /\ fresp.status = 201) =>
             /\ (freq'.method = "GET" /\ freq'.id = fresp.items[1].id) =>
                   (fresp'.status = 200 /\ fresp'.items = fresp.items)
             /\ freq'.method = "LIST" =>
                   \E i \in 1..Len(fresp'.items) :
                      fresp'.items[i] = fresp.items[1]
       /\ (freq'.method = "DELETE" /\ fresp'.status = 204) =>
             /\ DOMAIN items' = DOMAIN items \ {freq'.id}
             /\ \A k \in DOMAIN items' : items'[k] = items[k]
       /\ (freq'.method \in {"GET", "PUT", "DELETE"}
             /\ freq'.id < fnext /\ freq'.id \notin DOMAIN items) =>
             fresp'.status = 404
      ]_vars

\* C29 witness: a DELETE of an id that had been deleted before was answered
\* 404 while another item is in the store.
C29_Witness ==
    /\ freq.method = "DELETE"
    /\ fresp.status = 404
    /\ freq.id < fnext
    /\ DOMAIN items # {}

====
